---- MODULE Spec2Model ----
(***************************************************************************)
(* Model of the binary record codec of cape (capec_io.c): host byte-order  *)
(* detection, byte swapping, the scalar writers capec_Write_* and the      *)
(* record writers capec_WriteRecord_*.                                     *)
(*                                                                         *)
(* A 32-bit or 64-bit C value is a tuple of bytes in significance order    *)
(* (most significant byte first).  Its image in memory depends on the host *)
(* byte order (Mem).  fwrite copies memory bytes to the sink.              *)
(***************************************************************************)
EXTENDS Integers, Sequences, FiniteSets, TLC

\* ------------------------------------------------------------------ bounds
MaxExtent == 2      \* largest extent of the enumerated (small) arrays
MaxRoom == 9        \* largest finite number of bytes a sink accepts
MaxApply == 2       \* applications of a byte-swap function to one argument
MaxCalls == 2       \* record-writer calls made one after the other on one sink

\* A sink that accepts every write
Unlimited == -1
Rooms == {Unlimited} \cup (0..MaxRoom)

\* Element writes modelled per call (only the huge arrays reach it)
MaxElemWrites == MaxExtent * MaxExtent * MaxExtent

\* ------------------------------------------------------------ byte helpers
Byte == 0..255

Reverse(s) == [k \in 1..Len(s) |-> s[Len(s) + 1 - k]]

Min(a, b) == IF a < b THEN a ELSE b

\* In-memory image of a value on a host: little-endian hosts keep the least
\* significant byte at the lowest address.
Mem(val, le) == IF le THEN Reverse(val) ELSE val

\* __bswap_32 / __bswap_64 and the macros bs32(x), bs64(x): the value whose
\* bytes are those of x in reverse order.
bswap_32(val) == <<val[4], val[3], val[2], val[1]>>

bswap_64(val) == <<val[8], val[7], val[6], val[5], val[4], val[3], val[2], val[1]>>

\* is_le(): first byte in memory of the int 1
is_le(le) == Mem(<<0, 0, 0, 1>>, le)[1]

\* float swap_single(const float f): V[0] = F[3]; ... V[3] = F[0]; on the
\* bytes F of f and V of the result v in memory
swap_single(f, le) ==
    LET F == Mem(f, le)
        V == <<F[4], F[3], F[2], F[1]>>
    IN  Mem(V, le)

\* Variant: V[3] = F[3] in place of V[3] = F[4]
swap_double_Typo(f, le) ==
    LET F == Mem(f, le)
        V == <<F[8], F[7], F[6], F[4], F[4], F[3], F[2], F[1]>>
    IN  Mem(V, le)

\* double swap_double(const double f): V[0] = F[7]; ... V[7] = F[0];
swap_double(f, le) ==
    LET F == Mem(f, le)
        V == <<F[8], F[7], F[6], F[5], F[4], F[3], F[2], F[1]>>
    IN  Mem(V, le)

\* The four byte-swap functions by name
SwapFn(fn, val, le) ==
    IF fn = "swap_single" THEN swap_single(val, le)
    ELSE IF fn = "swap_double" THEN swap_double(val, le)
    ELSE IF fn = "bs32" THEN bswap_32(val)
    ELSE bswap_64(val)

\* Arguments of the swap functions: 4-byte and 8-byte words
SwapBytes == {0, 1, 200}

SwapArgs(fn) == IF fn \in {"swap_single", "bs32"} THEN [1..4 -> SwapBytes] ELSE [1..8 -> {1, 200}]

\* ------------------------------------------------- double -> float narrowing
\* Bits of a byte tuple, most significant first
Bits(val) == [k \in 1..(8 * Len(val)) |-> (val[((k - 1) \div 8) + 1] \div 2^(7 - ((k - 1) % 8))) % 2]

\* Unsigned value of bits a..b of a bit sequence (at most 30 bits)
RECURSIVE BitsVal(_, _, _)
BitsVal(bits, a, b) == IF a > b THEN 0 ELSE 2 * BitsVal(bits, a, b - 1) + bits[b]

\* Bytes of a binary32 with sign s, and the 31 low bits given as exponent
\* field e and fraction m
F32(s, e, m) == <<s * 128 + (e \div 2), (e % 2) * 128 + (m \div 65536), (m \div 256) % 256, m % 256>>

\* The C conversion (float) d of a binary64, round-to-nearest-even:
\*   v = np1d(P,i);   /  v = (float) np1d(P,i);
ToFloat(d) ==
    LET bits   == Bits(d)
        s      == bits[1]
        e      == BitsVal(bits, 2, 12)
        m23    == BitsVal(bits, 13, 35)
        guard  == bits[36]
        sticky == \E k \in 37..64 : bits[k] = 1
        mzero  == m23 = 0 /\ guard = 0 /\ ~sticky
        e32    == e - 896
        up     == guard = 1 /\ (sticky \/ m23 % 2 = 1)
        \* normal result: fraction and exponent packed, a carry out of the
        \* fraction increments the exponent
        packed == e32 * 8388608 + m23 + (IF up THEN 1 ELSE 0)
        \* subnormal result: the 24-bit significand shifted right by sh
        sh     == 1 - e32
        full   == 8388608 + m23
        q      == full \div 2^sh
        R      == (full % 2^sh) * 2 + guard
        H      == 2^sh
        upS    == R > H \/ (R = H /\ (sticky \/ q % 2 = 1))
        qS     == q + (IF upS THEN 1 ELSE 0)
    IN  IF e = 2047
          THEN IF mzero THEN F32(s, 255, 0)
                        ELSE F32(s, 255, 4194304 + (m23 % 4194304))
        ELSE IF e = 0 THEN F32(s, 0, 0)
        ELSE IF e32 >= 255 THEN F32(s, 255, 0)
        ELSE IF e32 >= 1
          THEN IF packed >= 255 * 8388608 THEN F32(s, 255, 0)
               ELSE F32(s, packed \div 8388608, packed % 8388608)
        ELSE IF sh > 24 THEN F32(s, 0, 0)
        ELSE F32(s, qS \div 8388608, qS % 8388608)

\* ------------------------------------------------------------- array views
\* Extents of the arrays whose payload overflows the 32-bit record marker:
\* 2^29 and 2^30 elements of 4 bytes, 2^28 elements of 8 bytes.  The
\* products of their extents fit an int.
HugeDims == {<<536870912>>, <<268435456>>, <<1073741824>>, <<32768, 16384>>, <<1024, 1024, 512>>}

\* The (2,3) array of the row-major test
SampleDims == {<<2, 3>>}

SmallDims == {<<a>> : a \in 0..MaxExtent}
        \cup {<<a, b>> : a, b \in 0..MaxExtent}
        \cup {<<a, b, c>> : a, b, c \in 0..MaxExtent}
        \cup SampleDims

\* The index tuples of an array with the given extents
Cells(dims) ==
    IF Len(dims) = 1 THEN {<<i>> : i \in 0..(dims[1] - 1)}
    ELSE IF Len(dims) = 2 THEN {<<i, j>> : i \in 0..(dims[1] - 1), j \in 0..(dims[2] - 1)}
    ELSE {<<j, k, l>> : j \in 0..(dims[1] - 1), k \in 0..(dims[2] - 1), l \in 0..(dims[3] - 1)}

\* A label that tells the cells of an array apart
CellCode(ix) == ix[1] + (IF Len(ix) >= 2 THEN 5 * ix[2] ELSE 0) + (IF Len(ix) >= 3 THEN 25 * ix[3] ELSE 0)

\* Cell contents: an int (4 bytes) or a double (8 bytes) that differs from
\* cell to cell, has no byte symmetry and, for doubles, has low mantissa bits
\* that the narrowing to float rounds away.
IntCell(c) == <<1 + (c % 100), 2, 3, 4 + (c % 200)>>

DoubleCell(c) == <<64 + (c % 2) * 128, 16 + (c % 100), (37 * c + 1) % 256, 3, 16 * (c % 16) + 5, 7, 9, 11>>

ZeroCell(kind) == IF kind = "i" THEN <<0, 0, 0, 0>> ELSE <<0, 0, 0, 0, 0, 0, 0, 0>>

\* A NumPy array of int (kind "i") or double (kind "d"): PyArray_NDIM is
\* Len(dims), PyArray_DIM(P, j) is dims[j+1].  The huge arrays are all zeros.
MkArray(dims, kind) ==
    [dims |-> dims,
     kind |-> kind,
     data |-> IF dims \in HugeDims THEN <<>>
              ELSE [ix \in Cells(dims) |-> IF kind = "i" THEN IntCell(CellCode(ix)) ELSE DoubleCell(CellCode(ix))]]

ArrayViews(kind) == {MkArray(d, kind) : d \in SmallDims \cup HugeDims}

NoArray == [dims |-> <<>>, kind |-> "none", data |-> <<>>]

\* np1i(P,i), np2d(P,i,j), ...: the element at an index tuple
npElem(P, ix) == IF ix \in DOMAIN P.data THEN P.data[ix] ELSE ZeroCell(P.kind)

\* ------------------------------------------------------------ entry points
\* capec_WriteRecord_<mode><width>_<kind><rank>
RecordEntries ==
    {[mode |-> mo, width |-> 4, kind |-> ki, rank |-> r] : mo \in {"ne", "bs", "b", "lb"}, ki \in {"i", "f"}, r \in 1..3}
    \cup {[mode |-> mo, width |-> 8, kind |-> "f", rank |-> r] : mo \in {"ne", "bs", "b", "lb"}, r \in 1..3}

\* capec_Write_<mode>4_<kind>; rank 0 marks a scalar writer
ScalarEntries == {[mode |-> mo, width |-> 4, kind |-> ki, rank |-> 0] : mo \in {"b", "lb"}, ki \in {"i", "f", "d"}}

\* The element type an entry point reads from its array
SourceKind(e) == IF e.kind = "i" THEN "i" ELSE "d"

\* Scalar arguments
ScalarValues(kind) ==
    IF kind = "i" THEN {<<0, 0, 0, 7>>, <<1, 2, 3, 4>>, <<255, 255, 255, 254>>}
    ELSE IF kind = "f" THEN {<<63, 128, 0, 0>>, <<61, 204, 204, 205>>}
    ELSE {<<63, 240, 0, 0, 0, 0, 0, 0>>, <<63, 185, 153, 153, 153, 153, 153, 154>>}

\* ------------------------------------------------------------------- state
VARIABLES
    host_le,    \* TRUE iff the host stores integers least significant byte first
    room,       \* bytes the sink still accepts (Unlimited: every write)
    pc,         \* position of the call: idle, open, loop, close, done
    entry,      \* the entry point that was called
    P,          \* the array passed to a record writer
    sval,       \* the value passed to a scalar writer
    routine,    \* the ne/bs routine the call runs: swap, width, kind, rank
    nb,         \* local nb: the record marker as stored in memory order of value
    idx,        \* loop indices of the next element to write
    log,        \* the fwrite calls on fid so far: what, bytes requested, bytes accepted
    status,     \* return value of the call
    pyerr,      \* Python error indicator
    hist,       \* the calls that have returned on this sink: entry, array, status
    other,      \* the context of the thread that is not running
    cur,        \* the thread that is running: 1 or 2
    swx         \* a byte-swap function under test: fn, argument x, value y, applications n

vars == <<host_le, room, pc, entry, P, sval, routine, nb, idx, log, status, pyerr, hist, other, cur, swx>>

\* What the record and scalar writers never touch
aux == <<hist, other, cur, swx>>

NoEntry == [mode |-> "none", width |-> 0, kind |-> "none", rank |-> 0]
NoRoutine == [swap |-> FALSE, width |-> 0, kind |-> "none", rank |-> 0]
NoValue == <<>>
End == <<>>
NoStatus == -1

\* ----------------------------------------------------------------- the sink
\* fwrite(ptr, size, 1, fid) on a sink with rm bytes of room: the bytes the
\* sink takes, the room left, and the item count fwrite returns
Accepted(bytes, rm) == IF rm = Unlimited THEN Len(bytes) ELSE Min(Len(bytes), rm)

RoomAfter(bytes, rm) == IF rm = Unlimited THEN Unlimited ELSE rm - Accepted(bytes, rm)

\* Variant: a partly written item counts as written
FwriteItems_AnyByte(bytes, rm) == IF Accepted(bytes, rm) > 0 THEN 1 ELSE 0

FwriteItems(bytes, rm) == IF Accepted(bytes, rm) = Len(bytes) THEN 1 ELSE 0

Fwrite(what, bytes, rm) == [what |-> what, bytes |-> bytes, acc |-> Accepted(bytes, rm)]

\* Content of the sink: the accepted bytes of every write, in order
RECURSIVE SinkOf(_)
SinkOf(l) == IF l = <<>> THEN <<>> ELSE SinkOf(SubSeq(l, 1, Len(l) - 1)) \o SubSeq(l[Len(l)].bytes, 1, l[Len(l)].acc)

\* ---------------------------------------------------------- record routines
\* Variant: the little-endian dispatchers test is_le() like the big-endian ones
DispatchSwap_SameTest(e, le) ==
    IF e.mode = "ne" THEN FALSE
    ELSE IF e.mode = "bs" THEN TRUE
    ELSE is_le(le) # 0

\* capec_WriteRecord_b*/lb*: choice of the byte-swapping or the native
\* routine from is_le(); the b8_f3 and lb8_f3 entry points call the 4-byte
\* routines
DispatchSwap(e, le) ==
    IF e.mode = "ne" THEN FALSE
    ELSE IF e.mode = "bs" THEN TRUE
    ELSE IF e.mode = "b" THEN is_le(le) # 0
    ELSE is_le(le) = 0

\* Variant: every dispatcher calls the routines of its own width
DispatchWidth_Own(e) == e.width

DispatchWidth(e) == IF e.mode \in {"b", "lb"} /\ e.width = 8 /\ e.rank = 3 THEN 4 ELSE e.width

Dispatch(e, le) == [swap |-> DispatchSwap(e, le), width |-> DispatchWidth(e), kind |-> e.kind, rank |-> e.rank]

\* Variant: arrays of a higher rank pass the check
RankOK_AtLeast(r, A) == Len(A.dims) >= r.rank

\* if (PyArray_NDIM(P) != rank) { PyErr_SetString(...); return 2; }
RankOK(r, A) == Len(A.dims) = r.rank

\* n, m * n, nj * nk * nl: the int product of the extents the routine reads
ElemCount(r, A) ==
    IF r.rank = 1 THEN A.dims[1]
    ELSE IF r.rank = 2 THEN A.dims[1] * A.dims[2]
    ELSE A.dims[1] * A.dims[2] * A.dims[3]

\* n * sizeof(T) in size_t, as two limbs: value = hi * 65536 + lo
SizeT(n, w) == [hi |-> (n \div 65536) * w + ((n % 65536) * w) \div 65536, lo |-> ((n % 65536) * w) % 65536]

\* Conversion of a size_t to int / unsigned int keeps the low 32 bits
Int32Of(sz) == <<(sz.hi \div 256) % 256, sz.hi % 256, sz.lo \div 256, sz.lo % 256>>

\* Variant: the marker counts elements, not bytes
RecordMarker_NoSizeof(r, n) == IF r.swap THEN bswap_32(Int32Of(SizeT(n, 1))) ELSE Int32Of(SizeT(n, 1))

\* Variant: nb is computed by the first call only and kept for later calls
RecordMarker_Stale(r, n) ==
    IF nb # NoValue THEN nb
    ELSE IF r.swap THEN bswap_32(Int32Of(SizeT(n, r.width))) ELSE Int32Of(SizeT(n, r.width))

\* nb = n * sizeof(T);   /   nb = __bswap_32(n * sizeof(T));
RecordMarker(r, n) == IF r.swap THEN bswap_32(Int32Of(SizeT(n, r.width))) ELSE Int32Of(SizeT(n, r.width))

\* Variant: the loop body runs once before the bounds are tested
FirstIdx_DoWhile(r, A) == [d \in 1..r.rank |-> 0]

\* for (i...) for (j...) ...: first index tuple of the loop nest
FirstIdx(r, A) == IF \A d \in 1..r.rank : A.dims[d] > 0 THEN [d \in 1..r.rank |-> 0] ELSE End

\* Variant: the first index varies fastest
NextIdx_ColMajor(r, A, ix) ==
    IF ix[1] + 1 < A.dims[1] THEN [ix EXCEPT ![1] = @ + 1]
    ELSE IF r.rank >= 2 /\ ix[2] + 1 < A.dims[2]
      THEN [d \in 1..r.rank |-> IF d = 1 THEN 0 ELSE IF d = 2 THEN ix[d] + 1 ELSE ix[d]]
    ELSE IF r.rank >= 3 /\ ix[3] + 1 < A.dims[3] THEN <<0, 0, ix[3] + 1>>
    ELSE End

\* Variant: the innermost loop lacks its increment
NextIdx_NoAdvance(r, A, ix) == ix

\* Next index tuple of the loop nest: the innermost index varies fastest
NextIdx(r, A, ix) ==
    IF ix[r.rank] + 1 < A.dims[r.rank] THEN [ix EXCEPT ![r.rank] = @ + 1]
    ELSE IF r.rank >= 2 /\ ix[r.rank - 1] + 1 < A.dims[r.rank - 1]
      THEN [d \in 1..r.rank |-> IF d = r.rank THEN 0 ELSE IF d = r.rank - 1 THEN ix[d] + 1 ELSE ix[d]]
    ELSE IF r.rank >= 3 /\ ix[1] + 1 < A.dims[1] THEN <<ix[1] + 1, 0, 0>>
    ELSE End

\* Variant: a double is swapped as two 32-bit halves
ElemValue_HalfSwap(r, A, ix) ==
    LET src == npElem(A, ix)
        v   == IF r.kind = "f" /\ r.width = 4 THEN ToFloat(src) ELSE src
    IN  IF ~r.swap THEN v
        ELSE IF r.width = 8 THEN bswap_32(SubSeq(v, 1, 4)) \o bswap_32(SubSeq(v, 5, 8)) ELSE bswap_32(v)

\* The local v of the loop body, after the optional swap
ElemValue(r, A, ix) ==
    LET src == npElem(A, ix)
        v   == IF r.kind = "f" /\ r.width = 4 THEN ToFloat(src) ELSE src
    IN  IF ~r.swap THEN v
        ELSE IF r.width = 8 THEN bswap_64(v) ELSE bswap_32(v)

\* Variant: the swap is applied to the array element, bs64(np1d(P,i)), not
\* to the local copy
ArrayAfterElem_InPlace(r, A, ix) ==
    IF r.swap /\ ix \in DOMAIN A.data
      THEN [A EXCEPT !.data[ix] = IF Len(@) = 8 THEN bswap_64(@) ELSE bswap_32(@)]
      ELSE A

\* The array after one pass of the loop body: v = np..(P, ...) copies the
\* element to the local v, and bs32(v) / bs64(v) / __bswap_32 work on v
ArrayAfterElem(r, A, ix) == A

\* fwrite(&v, sizeof(T), 1, fid): the first sizeof(T) bytes of v in memory
ElemBytes(r, A, ix, le) == SubSeq(Mem(ElemValue(r, A, ix), le), 1, r.width)

\* ------------------------------------------------------------ scalar writers
\* Variant: the little-endian writers never swap
ScalarSwap_BigOnly(e, le) == e.mode = "b" /\ is_le(le) # 0

\* capec_Write_b4_*: swap if is_le(); capec_Write_lb4_*: swap if !is_le()
ScalarSwap(e, le) == IF e.mode = "b" THEN is_le(le) # 0 ELSE is_le(le) = 0

ScalarValue(e, v, le) ==
    IF ~ScalarSwap(e, le) THEN v
    ELSE IF e.kind = "d" THEN bswap_64(v) ELSE bswap_32(v)

\* fwrite(&v, sizeof(int), 1, fid) in every scalar writer
ScalarSize(e) == 4

ScalarBytes(e, v, le) == SubSeq(Mem(ScalarValue(e, v, le), le), 1, ScalarSize(e))

\* -------------------------------------------------------------------- Init
\* The context of a thread that has not called anything, on a sink with room rm
IdleContext(rm) ==
    [room |-> rm, pc |-> "idle", entry |-> NoEntry, P |-> NoArray, sval |-> NoValue, routine |-> NoRoutine,
     nb |-> NoValue, idx |-> End, log |-> <<>>, status |-> NoStatus, pyerr |-> "none"]

NoSwap == [fn |-> "none", x |-> NoValue, y |-> NoValue, n |-> 0]

\* No call has returned, the second thread is not used, no swap under test
InitAux ==
    /\ hist = <<>>
    /\ other = IdleContext(Unlimited)
    /\ cur = 1
    /\ swx = NoSwap

Init ==
    /\ InitAux
    /\ host_le \in BOOLEAN
    /\ room \in Rooms
    /\ pc = "idle"
    /\ entry = NoEntry
    /\ P = NoArray
    /\ sval = NoValue
    /\ routine = NoRoutine
    /\ nb = NoValue
    /\ idx = End
    /\ log = <<>>
    /\ status = NoStatus
    /\ pyerr = "none"

\* ----------------------------------------------------------------- actions
\* Entry into capec_WriteRecord_*: dispatch, rank check, n and nb
CallRecord(e, A) ==
    /\ pc = "idle"
    /\ entry' = e
    /\ P' = A
    /\ routine' = Dispatch(e, host_le)
    /\ IF RankOK(routine', A)
         THEN /\ nb' = RecordMarker(routine', ElemCount(routine', A))
              /\ pc' = "open"
              /\ UNCHANGED <<status, pyerr>>
         ELSE /\ pyerr' = "ValueError"
              /\ status' = 2
              /\ pc' = "done"
              /\ UNCHANGED nb
    /\ UNCHANGED <<host_le, room, sval, idx, log>>
    /\ UNCHANGED aux

\* Record marker:  fwrite(&nb, sizeof(int), 1, fid);
WriteOpen ==
    /\ pc = "open"
    /\ log' = Append(log, Fwrite("open", Mem(nb, host_le), room))
    /\ room' = RoomAfter(Mem(nb, host_le), room)
    /\ idx' = FirstIdx(routine, P)
    /\ pc' = IF idx' = End THEN "close" ELSE "loop"
    /\ UNCHANGED <<host_le, entry, P, sval, routine, nb, status, pyerr>>
    /\ UNCHANGED aux

\* Loop body:  v = np..(P, ...); [swap;] fwrite(&v, sizeof(T), 1, fid);
WriteElem ==
    /\ pc = "loop"
    /\ Len(log) - 1 < MaxElemWrites
    /\ log' = Append(log, Fwrite("elem", ElemBytes(routine, P, idx, host_le), room))
    /\ room' = RoomAfter(ElemBytes(routine, P, idx, host_le), room)
    /\ idx' = NextIdx(routine, P, idx)
    /\ pc' = IF idx' = End THEN "close" ELSE "loop"
    /\ P' = ArrayAfterElem(routine, P, idx)
    /\ UNCHANGED <<host_le, entry, sval, routine, nb, status, pyerr>>
    /\ UNCHANGED aux

\* End-of-record marker:  fwrite(&nb, sizeof(int), 1, fid); return 0;
WriteClose ==
    /\ pc = "close"
    /\ log' = Append(log, Fwrite("close", Mem(nb, host_le), room))
    /\ room' = RoomAfter(Mem(nb, host_le), room)
    /\ status' = 0
    /\ pc' = "done"
    /\ UNCHANGED <<host_le, entry, P, sval, routine, nb, idx, pyerr>>
    /\ UNCHANGED aux

\* capec_Write_{b4,lb4}_{i,f,d}(fid, v)
CallScalar(e, v) ==
    /\ pc = "idle"
    /\ entry' = e
    /\ sval' = v
    /\ log' = Append(log, Fwrite("scalar", ScalarBytes(e, v, host_le), room))
    /\ room' = RoomAfter(ScalarBytes(e, v, host_le), room)
    /\ status' = IF FwriteItems(ScalarBytes(e, v, host_le), room) = 1 THEN 0 ELSE 1
    /\ pc' = "done"
    /\ UNCHANGED <<host_le, P, routine, nb, idx, pyerr>>
    /\ UNCHANGED aux

Next ==
    \/ \E e \in RecordEntries : \E A \in ArrayViews(SourceKind(e)) : CallRecord(e, A)
    \/ WriteOpen
    \/ WriteElem
    \/ WriteClose
    \/ \E e \in ScalarEntries : \E v \in ScalarValues(e.kind) : CallScalar(e, v)

Spec == Init /\ [][Next]_vars

\* ------------------------------------------------ one call run to completion
\* A call is synchronous: once entered, each of its steps is taken.
LiveRooms == {Unlimited, 0, 6}

\* Extents of the arrays run to completion: empty, one row, a 2 x 2 grid
\* and rank 3 with a carry into the middle and into the first index
LiveDims == {<<0>>, <<2>>, <<2, 0>>, <<2, 2>>, <<1, 2, 2>>, <<2, 1, 1>>}

LiveArrays(kind) == {MkArray(d, kind) : d \in LiveDims}

InitLive ==
    /\ InitAux
    /\ host_le \in BOOLEAN
    /\ room \in LiveRooms
    /\ pc = "idle" /\ entry = NoEntry /\ P = NoArray /\ sval = NoValue /\ routine = NoRoutine
    /\ nb = NoValue /\ idx = End /\ log = <<>> /\ status = NoStatus /\ pyerr = "none"

NextLive ==
    \/ \E e \in RecordEntries : \E A \in LiveArrays(SourceKind(e)) : CallRecord(e, A)
    \/ WriteOpen
    \/ WriteElem
    \/ WriteClose

\* The next fwrite of the call in progress
CallStep == WriteOpen \/ WriteElem \/ WriteClose

SpecLive == InitLive /\ [][NextLive]_vars /\ WF_vars(CallStep)

\* ------------------------------------------- several calls on the same sink
\* Entry points and arrays of the calls made in sequence
SeqEntries ==
    {[mode |-> "ne", width |-> 4, kind |-> "i", rank |-> 1],
     [mode |-> "bs", width |-> 4, kind |-> "i", rank |-> 1],
     [mode |-> "b", width |-> 4, kind |-> "f", rank |-> 1],
     [mode |-> "bs", width |-> 8, kind |-> "f", rank |-> 1],
     [mode |-> "lb", width |-> 4, kind |-> "f", rank |-> 2],
     [mode |-> "ne", width |-> 8, kind |-> "f", rank |-> 2],
     [mode |-> "lb", width |-> 4, kind |-> "i", rank |-> 3],
     [mode |-> "b", width |-> 8, kind |-> "f", rank |-> 3]}

SeqDims == {<<0>>, <<2>>, <<1, 2>>, <<1, 1, 1>>}

SeqArrays(kind) == {MkArray(d, kind) : d \in SeqDims}

\* The record writer has returned to its caller, which goes on to the next
\* call on the same FILE; the locals of the call are dead, not cleared
Return ==
    /\ pc = "done"
    /\ entry \in RecordEntries
    /\ Len(hist) + 1 < MaxCalls
    /\ hist' = Append(hist, [entry |-> entry, P |-> P, status |-> status])
    /\ status' = NoStatus
    /\ pc' = "idle"
    /\ UNCHANGED <<host_le, room, entry, P, sval, routine, nb, idx, log, pyerr, other, cur, swx>>

InitSeq ==
    /\ InitAux
    /\ host_le \in BOOLEAN
    /\ room = Unlimited
    /\ pc = "idle" /\ entry = NoEntry /\ P = NoArray /\ sval = NoValue /\ routine = NoRoutine
    /\ nb = NoValue /\ idx = End /\ log = <<>> /\ status = NoStatus /\ pyerr = "none"

NextSeq ==
    \/ \E e \in SeqEntries : \E A \in SeqArrays(SourceKind(e)) : CallRecord(e, A)
    \/ WriteOpen
    \/ WriteElem
    \/ WriteClose
    \/ Return

SpecSeq == InitSeq /\ [][NextSeq]_vars

\* ---------------------------------------------- the byte-swap functions alone
\* y = swap_single(y), y = swap_double(y), bs32(y), bs64(y)
ApplySwap ==
    /\ swx.fn # "none"
    /\ swx.n < MaxApply
    /\ swx' = [swx EXCEPT !.y = SwapFn(swx.fn, swx.y, host_le), !.n = @ + 1]
    /\ UNCHANGED <<host_le, room, pc, entry, P, sval, routine, nb, idx, log, status, pyerr, hist, other, cur>>

InitSwap ==
    /\ host_le \in BOOLEAN
    /\ room = Unlimited
    /\ pc = "idle" /\ entry = NoEntry /\ P = NoArray /\ sval = NoValue /\ routine = NoRoutine
    /\ nb = NoValue /\ idx = End /\ log = <<>> /\ status = NoStatus /\ pyerr = "none"
    /\ hist = <<>> /\ other = IdleContext(Unlimited) /\ cur = 1
    /\ \E fn \in {"swap_single", "swap_double", "bs32", "bs64"} : \E x \in SwapArgs(fn) :
          swx = [fn |-> fn, x |-> x, y |-> x, n |-> 0]

NextSwap == ApplySwap

SpecSwap == InitSwap /\ [][NextSwap]_vars

\* ------------------------------------------- two calls on two different sinks
\* Two threads each make one record-writer call on a FILE of their own.  The
\* writer's variables (n, nb, v, the loop indices) are automatic, so each
\* thread has its own; is_le() recomputes the host order from a local.  The
\* model runs one thread at a time and keeps the variables of the thread
\* that is not running in other.
ConcRooms == {Unlimited, 6}

\* The variables of the running thread
Context ==
    [room |-> room, pc |-> pc, entry |-> entry, P |-> P, sval |-> sval, routine |-> routine,
     nb |-> nb, idx |-> idx, log |-> log, status |-> status, pyerr |-> pyerr]

\* Variant: nb is a single object with static storage, shared by the threads
ContextSwitch_SharedNb ==
    /\ other' = Context
    /\ cur' = 3 - cur
    /\ room' = other.room /\ pc' = other.pc /\ entry' = other.entry /\ P' = other.P
    /\ sval' = other.sval /\ routine' = other.routine /\ idx' = other.idx
    /\ log' = other.log /\ status' = other.status /\ pyerr' = other.pyerr
    /\ UNCHANGED <<host_le, nb, hist, swx>>

\* The scheduler takes the processor from the running thread, between two
\* of its steps, and gives it to the other thread
ContextSwitch ==
    /\ other' = Context
    /\ cur' = 3 - cur
    /\ room' = other.room /\ pc' = other.pc /\ entry' = other.entry /\ P' = other.P
    /\ sval' = other.sval /\ routine' = other.routine /\ nb' = other.nb /\ idx' = other.idx
    /\ log' = other.log /\ status' = other.status /\ pyerr' = other.pyerr
    /\ UNCHANGED <<host_le, hist, swx>>

InitConc ==
    /\ hist = <<>> /\ cur = 1 /\ swx = NoSwap
    /\ host_le \in BOOLEAN
    /\ room \in ConcRooms
    /\ \E rm \in ConcRooms : other = IdleContext(rm)
    /\ pc = "idle" /\ entry = NoEntry /\ P = NoArray /\ sval = NoValue /\ routine = NoRoutine
    /\ nb = NoValue /\ idx = End /\ log = <<>> /\ status = NoStatus /\ pyerr = "none"

NextConc ==
    \/ \E e \in SeqEntries : \E A \in SeqArrays(SourceKind(e)) : CallRecord(e, A)
    \/ WriteOpen
    \/ WriteElem
    \/ WriteClose
    \/ ContextSwitch

SpecConc == InitConc /\ [][NextConc]_vars

\* ------------------------------------------------------- common vocabulary
IsRecordCall == entry \in RecordEntries

IsScalarCall == entry \in ScalarEntries

RankMatches == IsRecordCall /\ Len(P.dims) = entry.rank

\* The sink took every byte of every write
AllAccepted == \A k \in 1..Len(log) : log[k].acc = Len(log[k].bytes)

\* Big-endian bytes of a number below 2^31
Int32Bytes(k) == <<k \div 16777216, (k \div 65536) % 256, (k \div 256) % 256, k % 256>>

\* The byte order an entry point produces on this host
TargetBig == IF entry.mode = "b" THEN TRUE
             ELSE IF entry.mode = "lb" THEN FALSE
             ELSE IF entry.mode = "ne" THEN ~host_le
             ELSE host_le

InOrder(val, big) == IF big THEN val ELSE Reverse(val)

\* Bytes the sink took from the element writes
RECURSIVE PayloadLen(_)
PayloadLen(l) ==
    IF l = <<>> THEN 0
    ELSE PayloadLen(SubSeq(l, 1, Len(l) - 1)) + (IF l[Len(l)].what = "elem" THEN l[Len(l)].acc ELSE 0)

Product(dims) ==
    IF Len(dims) = 1 THEN dims[1]
    ELSE IF Len(dims) = 2 THEN dims[1] * dims[2]
    ELSE dims[1] * dims[2] * dims[3]

\* Row-major position of an index tuple
Flat(dims, ix) ==
    IF Len(dims) = 1 THEN ix[1]
    ELSE IF Len(dims) = 2 THEN ix[1] * dims[2] + ix[2]
    ELSE (ix[1] * dims[2] + ix[2]) * dims[3] + ix[3]

\* product of extents * element width exceeds 2^31 - 1
Overflows == RankMatches /\ SizeT(Product(P.dims), entry.width).hi >= 32768

C2_SizeLaw ==
    (pc = "done" /\ RankMatches /\ AllAccepted) =>
        /\ log[1].bytes = InOrder(Int32Bytes(Product(P.dims) * entry.width), TargetBig)
        /\ Len(SinkOf(log)) = 8 + Product(P.dims) * entry.width

\* ---------------------------------------------------------------------- C3
\* C3: the element at index tuple ix is the Flat(ix)-th element written,
\* where Flat is the row-major position; the record has one element write
\* per cell.
C3_RowMajor ==
    (pc = "done" /\ RankMatches) =>
        /\ Len(log) = Cardinality(DOMAIN P.data) + 2
        /\ \A ix \in DOMAIN P.data :
              /\ log[2 + Flat(P.dims, ix)].what = "elem"
              /\ log[2 + Flat(P.dims, ix)].bytes = ElemBytes(routine, P, ix, host_le)

\* a (2,3) array written in the order (0,0),(0,1),(0,2),(1,0),(1,1),(1,2)
C3_Witness ==
    /\ pc = "done" /\ RankMatches
    /\ P.dims = <<2, 3>>
    /\ [k \in 1..6 |-> log[k + 1].bytes]
         = [k \in 1..6 |-> ElemBytes(routine, P, <<(k - 1) \div 3, (k - 1) % 3>>, host_le)]
    /\ Cardinality({log[k + 1].bytes : k \in 1..6}) = 6

\* ---------------------------------------------------------------------- C4
\* C4: a record writer given an array of another rank returns 2 and no
\* write has been issued on the sink.
C4_WrongRank ==
    (IsRecordCall /\ Len(P.dims) # entry.rank) =>
        /\ pc = "done"
        /\ status = 2
        /\ log = <<>>

C4_Witness ==
    /\ IsRecordCall /\ entry.rank = 2 /\ Len(P.dims) = 3
    /\ entry.mode = "lb" /\ ~host_le
    /\ status = 2

\* ---------------------------------------------------------------------- C5
\* C5: if the sink took fewer bytes than requested on an element write, the
\* call returns a status other than 0 and 2, and no trailing marker is
\* written after that element.
C5_ShortWriteFails ==
    (pc = "done" /\ IsRecordCall) =>
        \A k \in 1..Len(log) :
            (log[k].what = "elem" /\ log[k].acc < Len(log[k].bytes)) =>
                /\ status \notin {0, 2}
                /\ \A j \in (k + 1)..Len(log) : log[j].what # "close"

\* ---------------------------------------------------------------------- C6
\* C6: when (product of extents) * element width exceeds the signed 32-bit
\* range, the call ends with a validation error and nothing is written.
C6_OverflowRejected ==
    Overflows =>
        /\ pc = "done"
        /\ status \notin {0, NoStatus}
        /\ log = <<>>

\* ---------------------------------------------------------------------- C7
\* C7: an array of the right rank with an extent 0 gives status 0, two
\* markers that encode 0, no element write, and 8 bytes in the sink.
C7_ZeroExtent ==
    (pc = "done" /\ RankMatches /\ AllAccepted /\ \E d \in 1..Len(P.dims) : P.dims[d] = 0) =>
        /\ status = 0
        /\ Len(log) = 2
        /\ log[1].bytes = <<0, 0, 0, 0>> /\ log[2].bytes = <<0, 0, 0, 0>>
        /\ log[1].what = "open" /\ log[2].what = "close"
        /\ Len(SinkOf(log)) = 8

C7_Witness ==
    /\ pc = "done" /\ RankMatches /\ AllAccepted
    /\ P.dims = <<2, 0, 1>>
    /\ status = 0 /\ Len(SinkOf(log)) = 8

\* ---------------------------------------------------------------------- C8
\* The value a routine writes for an element, before any swap
Unswapped(ix) == ElemValue([routine EXCEPT !.swap = FALSE], P, ix)

\* C8: a big-endian entry point runs the swapping routine iff the host is
\* little-endian and a little-endian entry point iff the host is
\* big-endian; so every field of the record (markers, elements) is the
\* unswapped value in the requested byte order, on either host.
C8_SwapIffHostDiffers ==
    (IsRecordCall /\ entry.mode \in {"b", "lb"} /\ pc # "idle") =>
        /\ routine.swap = (host_le = (entry.mode = "b"))
        /\ (pc = "done" /\ RankMatches) =>
              /\ log[1].bytes = InOrder(Int32Of(SizeT(Product(P.dims), routine.width)), entry.mode = "b")
              /\ log[Len(log)].bytes = log[1].bytes
              /\ \A ix \in DOMAIN P.data :
                    log[2 + Flat(P.dims, ix)].bytes = InOrder(Unswapped(ix), entry.mode = "b")

C8_Witness ==
    /\ pc = "done" /\ RankMatches
    /\ entry.mode = "lb" /\ ~host_le /\ routine.swap
    /\ Len(log) = 6
    /\ log[2].bytes # Reverse(log[2].bytes)

\* ---------------------------------------------------------------------- C9
\* C9: the double writers write the 8 bytes of the double, in the requested
\* byte order.
C9_DoubleIsEightBytes ==
    (pc = "done" /\ IsScalarCall /\ entry.kind = "d") =>
        /\ Len(log) = 1
        /\ Len(log[1].bytes) = 8
        /\ log[1].bytes = InOrder(sval, entry.mode = "b")

\* --------------------------------------------------------------------- C10
\* C10: the int and float scalar writers issue one write of 4 bytes: the
\* bytes of the value as the host holds them, reversed iff the host order
\* differs from the target order; the sink gets all 4 unless it is full.
C10_ScalarFourBytes ==
    (pc = "done" /\ IsScalarCall /\ entry.kind \in {"i", "f"}) =>
        /\ Len(log) = 1
        /\ Len(log[1].bytes) = 4
        /\ log[1].bytes = (IF host_le # (entry.mode = "lb") THEN Reverse(Mem(sval, host_le)) ELSE Mem(sval, host_le))
        /\ (log[1].acc = 4 \/ room = 0)

C10_Witness ==
    /\ pc = "done" /\ IsScalarCall /\ entry.kind = "f"
    /\ entry.mode = "b" /\ host_le
    /\ sval = <<61, 204, 204, 205>>
    /\ SinkOf(log) = <<61, 204, 204, 205>>

\* --------------------------------------------------------------------- C11
\* C11: a scalar writer returns 0 if the sink took the whole item of its
\* fwrite, and 1 if the sink took less; no other status, on either host.
C11_ScalarStatus ==
    (pc = "done" /\ IsScalarCall) =>
        /\ Len(log) = 1
        /\ log[1].what = "scalar"
        /\ status \in {0, 1}
        /\ (status = 0) = (log[1].acc = Len(log[1].bytes))
        /\ (status = 1) = (log[1].acc < Len(log[1].bytes))

\* a short write of 2 of the 4 bytes, reported as 1
C11_Witness ==
    /\ pc = "done" /\ IsScalarCall
    /\ entry.kind = "d" /\ entry.mode = "lb" /\ host_le
    /\ log[1].acc = 2 /\ Len(log[1].bytes) = 4
    /\ status = 1

\* --------------------------------------------------------------------- C12
\* C12: swap_single, swap_double, bs32 and bs64 are involutions: applied an
\* even number of times they give back the argument (and applied an odd
\* number of times its bytes reversed).
C12_SwapInvolution ==
    (swx.fn # "none") =>
        /\ (swx.n % 2 = 0) => swx.y = swx.x
        /\ (swx.n % 2 = 1) => swx.y = Reverse(swx.x)

C12_Witness ==
    /\ swx.fn = "swap_double" /\ swx.n = 2
    /\ swx.x = <<1, 200, 200, 1, 200, 1, 1, 1>>
    /\ swx.y = swx.x
    /\ ~host_le

\* ------------------------------------------- the record of a call run alone
\* The byte order entry point e produces on a host
TargetBigOf(e, le) == IF e.mode = "b" THEN TRUE
                      ELSE IF e.mode = "lb" THEN FALSE
                      ELSE IF e.mode = "ne" THEN ~le
                      ELSE le

\* Index tuple at row-major position k
Unflat(dims, k) ==
    IF Len(dims) = 1 THEN <<k>>
    ELSE IF Len(dims) = 2 THEN <<k \div dims[2], k % dims[2]>>
    ELSE <<k \div (dims[2] * dims[3]), (k \div dims[3]) % dims[2], k % dims[3]>>

\* Width and element kind of the fields entry point e writes
RefRoutine(e) == [swap |-> FALSE, width |-> DispatchWidth(e), kind |-> e.kind, rank |-> e.rank]

\* The writes of one call of e on array A (of a small extent), as a
\* function of e, A and the host only: nothing for a wrong rank, else the
\* marker, the elements in row-major order, the marker
RefWrites(e, A, le) ==
    IF Len(A.dims) # e.rank THEN <<>>
    ELSE LET n == Product(A.dims)
             m == InOrder(Int32Bytes(n * DispatchWidth(e)), TargetBigOf(e, le))
         IN  <<[what |-> "open", bytes |-> m]>>
             \o [k \in 1..n |-> [what |-> "elem",
                                 bytes |-> InOrder(ElemValue(RefRoutine(e), A, Unflat(A.dims, k - 1)), TargetBigOf(e, le))]]
             \o <<[what |-> "close", bytes |-> m]>>

RefStatus(e, A) == IF Len(A.dims) # e.rank THEN 2 ELSE 0

\* What was requested of the sink, without the accepted counts
Requests(l) == [k \in 1..Len(l) |-> [what |-> l[k].what, bytes |-> l[k].bytes]]

RECURSIVE BytesOf(_)
BytesOf(w) == IF w = <<>> THEN <<>> ELSE BytesOf(SubSeq(w, 1, Len(w) - 1)) \o w[Len(w)].bytes

\* --------------------------------------------------------------------- C13
\* The calls that have completed on the sink, in order
Completed == IF pc = "done" THEN Append(hist, [entry |-> entry, P |-> P, status |-> status]) ELSE hist

RECURSIVE RefSequence(_, _)
RefSequence(calls, le) ==
    IF calls = <<>> THEN <<>>
    ELSE RefSequence(SubSeq(calls, 1, Len(calls) - 1), le) \o RefWrites(calls[Len(calls)].entry, calls[Len(calls)].P, le)

\* C13: between calls, the sink holds the concatenation, in call order, of
\* the records each completed call produces on its own, and every status
\* is the one the call returns on its own: both are functions of the
\* call's entry point, array and the host byte order only.
C13_NoStateAcrossCalls ==
    (pc \in {"idle", "done"}) =>
        /\ Requests(log) = RefSequence(Completed, host_le)
        /\ SinkOf(log) = BytesOf(RefSequence(Completed, host_le))
        /\ \A k \in 1..Len(Completed) : Completed[k].status = RefStatus(Completed[k].entry, Completed[k].P)

\* a native 2-element int record after a swapped record of 2 doubles
C13_Witness ==
    /\ pc = "done" /\ Len(hist) = 1
    /\ hist[1].entry.mode = "bs" /\ hist[1].entry.width = 8 /\ hist[1].P.dims = <<2>>
    /\ entry.mode = "ne" /\ P.dims = <<2>>
    /\ Len(SinkOf(log)) = 24 + 16

\* --------------------------------------------------------------------- C14
\* C14: at every point of a record-writer call, and after it (rank-rejected
\* or not, swapping or not), the array holds the extents and the elements it
\* was passed with; the arrays passed are MkArray(dims, kind).
C14_ArrayUnchanged ==
    IsRecordCall =>
        /\ P = MkArray(P.dims, P.kind)
        /\ P \in ArrayViews(SourceKind(entry))

\* a swapped record of doubles was written and the array still holds the
\* unswapped elements
C14_Witness ==
    /\ pc = "done" /\ RankMatches
    /\ routine.swap /\ routine.width = 8
    /\ P.dims = <<2, 2>>
    /\ P.data[<<1, 1>>] = DoubleCell(CellCode(<<1, 1>>))
    /\ log[5].bytes = Reverse(Mem(P.data[<<1, 1>>], host_le))

\* --------------------------------------------------------------------- C15
\* The 4-byte and the 8-byte entry points of the same mode, kind and rank
Like4(e) == [e EXCEPT !.width = 4]

Mirror(w) == [k \in 1..Len(w) |-> [what |-> w[k].what, bytes |-> Reverse(w[k].bytes)]]

\* C16: the native routine writes the record in host order; the
\* byte-swapped routine writes the same fields (same number, same order,
\* same widths) with the bytes of each field reversed; and the record of a
\* big-endian entry point is the field-wise mirror of the record of the
\* little-endian one.
C16_SwappedIsMirror ==
    (pc = "done" /\ IsRecordCall) =>
        /\ (entry.mode = "ne") => Requests(log) = RefWrites(entry, P, host_le)
        /\ (entry.mode = "bs") =>
              /\ Requests(log) = Mirror(RefWrites([entry EXCEPT !.mode = "ne"], P, host_le))
              /\ Len(log) = Len(RefWrites([entry EXCEPT !.mode = "ne"], P, host_le))
              /\ \A k \in 1..Len(log) :
                    Len(log[k].bytes) = IF log[k].what = "elem" THEN entry.width ELSE 4
        /\ (entry.mode = "b") => Requests(log) = Mirror(RefWrites([entry EXCEPT !.mode = "lb"], P, host_le))
        /\ (entry.mode = "lb") => Requests(log) = Mirror(RefWrites([entry EXCEPT !.mode = "b"], P, host_le))

C16_Witness ==
    /\ pc = "done" /\ RankMatches
    /\ entry = [mode |-> "bs", width |-> 8, kind |-> "f", rank |-> 1]
    /\ P.dims = <<2>>
    /\ Len(log) = 4
    /\ log[2].bytes # Reverse(log[2].bytes)
    /\ log[2].bytes = Reverse(Mem(P.data[<<0>>], host_le))

\* --------------------------------------------------------------------- C17
IsPrefix(a, b) == Len(a) <= Len(b) /\ a = SubSeq(b, 1, Len(a))

\* In every state of a rank-valid call after its first write: the writes so
\* far are the opening marker followed by a prefix of the row-major
\* payload, the trailing marker is write number N + 2 and nothing else is,
\* and the call has returned iff the trailing marker is written.
C17_Order ==
    (RankMatches /\ pc \in {"loop", "close", "done"}) =>
        /\ log # <<>> /\ log[1].what = "open"
        /\ IsPrefix(Requests(log), RefWrites(entry, P, host_le))
        /\ \A k \in 1..Len(log) : (log[k].what = "close") = (k = Product(P.dims) + 2)
        /\ \A k \in 1..Len(log) : (log[k].what = "elem") = (1 < k /\ k < Product(P.dims) + 2)
        /\ (pc = "close") = (Len(log) = Product(P.dims) + 1)
        /\ (pc = "done") = (Len(log) = Product(P.dims) + 2)
        /\ AllAccepted => IsPrefix(SinkOf(log), BytesOf(RefWrites(entry, P, host_le)))

C17_Entered == RankMatches /\ pc = "open"

C17_Returned == RankMatches /\ pc = "done" /\ status = 0 /\ Len(log) = Product(P.dims) + 2

\* C17: a rank-valid call terminates after exactly N + 2 writes, in the
\* order opening marker, N elements, trailing marker, with the order kept
\* in every intermediate state.
C17_TerminatesInOrder == [](C17_Order) /\ (C17_Entered ~> C17_Returned)

\* the opening marker and two of four elements are written, no trailing marker
C17_Witness ==
    /\ RankMatches /\ pc = "loop"
    /\ P.dims = <<2, 2>>
    /\ Len(log) = 3
    /\ idx = <<1, 0>>
    /\ \A k \in 1..Len(log) : log[k].what # "close"

\* --------------------------------------------------------------------- C18
\* The writes and the sink of the call of thread context c are those of the
\* same call run alone: a prefix of them while the call runs, all of them,
\* with its status, once it has returned
AloneIn(c) ==
    (c.entry \in RecordEntries /\ c.pc \in {"open", "loop", "close", "done"}) =>
        /\ IsPrefix(Requests(c.log), RefWrites(c.entry, c.P, host_le))
        /\ IsPrefix(SinkOf(c.log), BytesOf(RefWrites(c.entry, c.P, host_le)))
        /\ c.pc = "done" =>
              /\ Requests(c.log) = RefWrites(c.entry, c.P, host_le)
              /\ c.status = RefStatus(c.entry, c.P)
              /\ c.room # 0 => SinkOf(c.log) = BytesOf(RefWrites(c.entry, c.P, host_le))

\* C18: under every interleaving of the steps of two calls on two
\* different sinks, each thread's sink holds what its call writes when run
\* alone, a function of its entry point, its array and the host order.
C18_ConcurrentAlone == AloneIn(Context) /\ AloneIn(other)

\* both calls are in progress with different markers: this thread has
\* written all but its trailing marker, the other its marker and one element
C18_Witness ==
    /\ pc = "close" /\ Len(log) = 3
    /\ other.pc = "loop" /\ Len(other.log) = 2
    /\ other.entry \in RecordEntries /\ entry \in RecordEntries
    /\ nb # other.nb

====
